---- MODULE Spec2Model ----
(***************************************************************************)
(* Model of the risk engine of modules/risk_engine.py (RiskEngine) and of   *)
(* the scenario handlers of app.py that call it: compute_total_risk,        *)
(* dollarize_risk, simulate_acquisition, simulate_divestiture and           *)
(* simulate_risk_event acting on the graph store (Company / Blockholder /   *)
(* RiskFactor nodes, OWNS and EXPOSED_TO relationships).                    *)
(*                                                                         *)
(* Spec: the three scenario operators called on the engine.  SpecNoAcq:    *)
(* the same from a graph without acquired companies.  SpecRisk:            *)
(* compute_total_risk and dollarize_risk on graphs of any shape.  SpecApp: *)
(* the scenario handlers of the app.  SpecDiff: generate_diff on any two    *)
(* snapshot files.  SpecDegree: get_critical_nodes_by_degree on graphs of   *)
(* any shape.  SpecSessions: the handlers of two browser sessions, each     *)
(* engine call one step.                                                   *)
(*                                                                         *)
(* Numbers are exact rationals <<n, d>> (d > 0, lowest terms); a missing   *)
(* property is Null.                                                       *)
(***************************************************************************)
EXTENDS Integers, FiniteSets, Sequences, TLC

\* ------------------------------------------------------------------ bounds
\* number of scenario operations explored in one behaviour
MaxOps == 2
\* largest denominator a stored EXPOSED_TO weight may take
MaxDen == 2

\* ------------------------------------------------------------- rationals
Null == <<>>

RECURSIVE GCD(_, _)
GCD(a, b) == IF b = 0 THEN a ELSE GCD(b, a % b)

Abs(n) == IF n < 0 THEN -n ELSE n

R(n, d) == LET g == GCD(Abs(n), d) IN <<n \div g, d \div g>>

\* the product, cancelling across before multiplying
RMul(x, y) ==
    LET g == GCD(Abs(x[1]), y[2])
        h == GCD(Abs(y[1]), x[2])
    IN  R((x[1] \div g) * (y[1] \div h), (x[2] \div h) * (y[2] \div g))
RAdd(x, y) ==
    LET g == GCD(x[2], y[2])
    IN  R(x[1] * (y[2] \div g) + y[1] * (x[2] \div g), (x[2] \div g) * y[2])
RSub(x, y) == RAdd(x, <<-y[1], y[2]>>)
RAbs(x) == <<Abs(x[1]), x[2]>>
RLess(x, y) == x[1] * y[2] < y[1] * x[2]
Zero == R(0, 1)
One == R(1, 1)
Half == R(1, 2)

\* ----------------------------------------------------------------- nodes
Companies == {"C_1", "C_2", "C_3"}
Blockholders == {"B_1"}
RiskFactors == {"Flood", "Quake"}
Owners == Companies \cup Blockholders

\* Python's None as an argument; no id, sector or location equals it
None == "None"

\* simulate_acquisition(acquirer, target, percent) calls: every pair of
\* companies, an acquirer that is no Company, a target naming no node
AcquisitionInputs ==
    ((Companies \X Companies) \cup {<<"B_1", "C_1">>, <<"C_1", "C_9">>})
        \X {Half, R(3, 2)}
\* simulate_divestiture(owner, target) calls: every pair of companies, the
\* blockholder as owner, a target naming no node
DivestitureInputs ==
    (Companies \X Companies) \cup (Blockholders \X Companies)
        \cup {<<"C_1", "C_9">>}
\* simulate_risk_event(name, multiplier, company, sector, location) calls on
\* a risk factor of the graph, and one on a name no RiskFactor has
RiskEventInputs ==
    ({"Flood"} \X {R(-1, 1), Zero, Half, R(2, 1)} \X {None, "C_1"}
        \X {"", "Tech"} \X {None, "NY"})
    \cup {<<"Drought", R(2, 1), None, "", None>>}

sector == [c \in Companies |-> IF c = "C_3" THEN "Energy" ELSE "Tech"]
location == [c \in Companies |-> IF c = "C_2" THEN "CA" ELSE "NY"]

LoadYear == 2023
CurrentYear == 2026

\* exposed: the EXPOSED_TO relationships in the store; calls: the engine
\* methods the caller has called, in order (for a scenario handler of the
\* app: those of its last run)
\* files: output/snapshot_before.json, output/snapshot_after.json and
\* output/diff_report.csv
\* sessions: for every browser session of the app, where its scenario
\* handler stands
VARIABLES owns, role, weight, direct_risk, total_risk, dollarized_risk,
          last, nops, exposed, calls, files, sessions

vars == <<owns, role, weight, direct_risk, total_risk, dollarized_risk,
          last, nops, exposed, calls, files, sessions>>

Edge(p, c, pct, y, a) == [src |-> p, dst |-> c, percent |-> pct, year |-> y, acq |-> a]

Incoming(es, c) == {e \in es : e.dst = c}

\* the EXPOSED_TO relationships a store may hold; no operation of the engine
\* creates or deletes one
ExposedTo == {<<"C_1", "Flood">>, <<"C_2", "Flood">>, <<"C_3", "Flood">>,
              <<"C_1", "Quake">>}

\* --------------------------------------------------- simulate_acquisition
\* mutant of CheckCompanies: only the acquired company is looked up
CheckAcquiredOnly(z, t) == t \in Companies

\* MATCH (acquirer:Company {id}) MATCH (acquired:Company {id}) ... .single()
CheckCompanies(z, t) == z \in Companies /\ t \in Companies

\* mutant of DeleteIncoming: only edges from Company owners are deleted
DeleteIncomingFromCompanies(es, t) ==
    es \ {e \in es : e.dst = t /\ e.src \in Companies}

\* MATCH (p)-[o:OWNS]->(c:Company {id: t}) DELETE o
DeleteIncoming(es, t) == es \ {e \in es : e.dst = t /\ t \in Companies}

\* MATCH (acquirer:Company {id}) MATCH (acquired:Company {id})
\* MERGE (acquirer)-[o:OWNS]->(acquired) SET o.percent = p, o.year = current_year
MergeOwns(es, z, t, p) ==
    LET old == {e \in es : e.src = z /\ e.dst = t}
    IN  IF z \notin Companies \/ t \notin Companies THEN es
        ELSE IF old = {}
        THEN es \cup {Edge(z, t, p, CurrentYear, TRUE)}
        ELSE (es \ old) \cup
             {[e EXCEPT !.percent = p, !.year = CurrentYear] : e \in old}

\* MATCH (c:Company {id: t}) SET c.role = r
SetRole(rl, t, r) == [c \in Companies |-> IF c = t THEN r ELSE rl[c]]

\* The statements of simulate_acquisition run one by one, each committed on
\* its own; f is the statement at which the store raises (0: none does).
\* The result is the graph left behind, the value returned and whether the
\* except branch ran.
SimulateAcquisition(es, rl, z, t, p, f) ==
    IF f = 1 THEN [owns |-> es, role |-> rl, ret |-> FALSE, exc |-> TRUE]
    ELSE IF ~CheckCompanies(z, t)
    THEN [owns |-> es, role |-> rl, ret |-> FALSE, exc |-> FALSE]
    ELSE IF f = 2 THEN [owns |-> es, role |-> rl, ret |-> FALSE, exc |-> TRUE]
    ELSE IF f = 3
    THEN [owns |-> DeleteIncoming(es, t), role |-> rl, ret |-> FALSE, exc |-> TRUE]
    ELSE IF f = 4
    THEN [owns |-> MergeOwns(DeleteIncoming(es, t), z, t, p), role |-> rl,
          ret |-> FALSE, exc |-> TRUE]
    ELSE [owns |-> MergeOwns(DeleteIncoming(es, t), z, t, p),
          role |-> SetRole(rl, t, "acquired"), ret |-> TRUE, exc |-> FALSE]

\* mutant of Acquisition: the acquired company's total_risk is cleared
AcquisitionClearingRisk(z, t, p, f) ==
    /\ nops < MaxOps
    /\ LET r == SimulateAcquisition(owns, role, z, t, p, f)
       IN  /\ owns' = r.owns
           /\ role' = r.role
           /\ last' = [op |-> "acquisition", args |-> <<z, t, p>>,
                       ret |-> r.ret, exc |-> r.exc, hit |-> {}]
           /\ total_risk' = IF r.ret
                            THEN [n \in DOMAIN total_risk |->
                                    IF n = t THEN Zero ELSE total_risk[n]]
                            ELSE total_risk
    /\ nops' = nops + 1
    /\ UNCHANGED <<weight, direct_risk, dollarized_risk, exposed, calls,
                   files, sessions>>

Acquisition(z, t, p, f) ==
    /\ nops < MaxOps
    /\ LET r == SimulateAcquisition(owns, role, z, t, p, f)
       IN  /\ owns' = r.owns
           /\ role' = r.role
           /\ last' = [op |-> "acquisition", args |-> <<z, t, p>>,
                       ret |-> r.ret, exc |-> r.exc, hit |-> {}]
    /\ nops' = nops + 1
    /\ UNCHANGED <<weight, direct_risk, total_risk, dollarized_risk, exposed,
                   calls, files, sessions>>

\* --------------------------------------------------- simulate_divestiture
\* MATCH (d:Company {id})-[o:OWNS]->(t:Company {id}) DELETE o
DivestedEdges(es, d, t) ==
    {e \in es : e.src = d /\ d \in Companies /\ e.dst = t /\ t \in Companies}

\* MATCH (p:Company)-[:OWNS]->(c:Company {id: t}) RETURN count(p)
OwnersCount(es, t) ==
    Cardinality({e \in es : e.src \in Companies /\ e.dst = t /\ t \in Companies})

SimulateDivestiture(es, rl, d, t, f) ==
    LET gone == DivestedEdges(es, d, t)
        left == es \ gone
    IN  IF f = 1 THEN [owns |-> es, role |-> rl, ret |-> FALSE, exc |-> TRUE]
        ELSE IF gone = {}
        THEN [owns |-> es, role |-> rl, ret |-> FALSE, exc |-> FALSE]
        ELSE IF f = 2
        THEN [owns |-> left, role |-> rl, ret |-> FALSE, exc |-> TRUE]
        ELSE IF OwnersCount(left, t) # 0
        THEN [owns |-> left, role |-> rl, ret |-> TRUE, exc |-> FALSE]
        ELSE IF f = 3
        THEN [owns |-> left, role |-> rl, ret |-> FALSE, exc |-> TRUE]
        ELSE [owns |-> left, role |-> SetRole(rl, t, "company"),
              ret |-> TRUE, exc |-> FALSE]

Divestiture(d, t, f) ==
    /\ nops < MaxOps
    /\ LET r == SimulateDivestiture(owns, role, d, t, f)
       IN  /\ owns' = r.owns
           /\ role' = r.role
           /\ last' = [op |-> "divestiture", args |-> <<d, t>>,
                       ret |-> r.ret, exc |-> r.exc, hit |-> {}]
    /\ nops' = nops + 1
    /\ UNCHANGED <<weight, direct_risk, total_risk, dollarized_risk, exposed,
                   calls, files, sessions>>

\* ---------------------------------------------------- simulate_risk_event
\* Python truthiness of an optional filter: None and "" add no WHERE clause
Provided(x) == x # None /\ x # ""

\* mutant of Matched: the WHERE clauses are joined with OR
MatchedAnyClause(name, cid, sec, loc) ==
    {k \in exposed :
        /\ k[2] = name
        /\ (Provided(cid) \/ Provided(sec) \/ Provided(loc)) =>
              \/ Provided(cid) /\ k[1] = cid
              \/ Provided(sec) /\ sector[k[1]] = sec
              \/ Provided(loc) /\ location[k[1]] = loc}

\* MATCH (c:Company)-[e:EXPOSED_TO]->(r:RiskFactor {name}) WHERE ... AND ...
Matched(name, cid, sec, loc) ==
    {k \in exposed :
        /\ k[2] = name
        /\ Provided(cid) => k[1] = cid
        /\ Provided(sec) => sector[k[1]] = sec
        /\ Provided(loc) => location[k[1]] = loc}

\* mutant of NewWeight: the upper clamp is missing
NewWeightNoCeiling(w, m) ==
    IF RLess(RMul(w, m), Zero) THEN Zero ELSE RMul(w, m)

\* mutant of NewWeight: the multiplier is added to the weight
NewWeightAdding(w, m) ==
    IF RLess(One, RAdd(w, m)) THEN One
    ELSE IF RLess(RAdd(w, m), Zero) THEN Zero
    ELSE RAdd(w, m)

\* CASE WHEN w * m > 1.0 THEN 1.0 WHEN w * m < 0.0 THEN 0.0 ELSE w * m END
NewWeight(w, m) ==
    IF RLess(One, RMul(w, m)) THEN One
    ELSE IF RLess(RMul(w, m), Zero) THEN Zero
    ELSE RMul(w, m)

\* mutant of SimulateRiskEvent: the count returned is that of the weights
\* whose value changed
SimulateRiskEventCountingChanges(wt, name, m, cid, sec, loc, f) ==
    LET hit == Matched(name, cid, sec, loc)
    IN  IF f = 1 THEN [weight |-> wt, ret |-> 0, exc |-> TRUE, hit |-> {}]
        ELSE [weight |-> [k \in ExposedTo |->
                            IF k \in hit THEN NewWeight(wt[k], m) ELSE wt[k]],
              ret |-> Cardinality({k \in hit : NewWeight(wt[k], m) # wt[k]}),
              exc |-> FALSE, hit |-> hit]

\* One write transaction: it commits whole or, when the store raises
\* (f = 1), rolls back and the except branch returns 0.  hit is the set of
\* relationships whose weight the committed SET wrote.
SimulateRiskEvent(wt, name, m, cid, sec, loc, f) ==
    LET hit == Matched(name, cid, sec, loc)
    IN  IF f = 1 THEN [weight |-> wt, ret |-> 0, exc |-> TRUE, hit |-> {}]
        ELSE [weight |-> [k \in ExposedTo |->
                            IF k \in hit THEN NewWeight(wt[k], m) ELSE wt[k]],
              ret |-> Cardinality(hit), exc |-> FALSE, hit |-> hit]

RiskEvent(name, m, cid, sec, loc, f) ==
    /\ nops < MaxOps
    /\ LET r == SimulateRiskEvent(weight, name, m, cid, sec, loc, f)
       IN  /\ \A k \in ExposedTo : r.weight[k][2] <= MaxDen
           /\ weight' = r.weight
           /\ last' = [op |-> "risk_event", args |-> <<name, m, cid, sec, loc>>,
                       ret |-> r.ret, exc |-> r.exc, hit |-> r.hit]
    /\ nops' = nops + 1
    /\ UNCHANGED <<owns, role, direct_risk, total_risk, dollarized_risk,
                   exposed, calls, files, sessions>>

\* ----------------------------------------------------- compute_total_risk
Nodes == Owners \cup RiskFactors

RECURSIVE Tabulate(_, _)
\* the function f restricted to S, written out value by value
Tabulate(S, f) ==
    IF S = {} THEN <<>>
    ELSE LET x == CHOOSE y \in S : TRUE
         IN  (x :> f[x]) @@ Tabulate(S \ {x}, f)

\* coalesce(x, 0)
Coalesce(x) == IF x = Null THEN Zero ELSE x

\* abs(x) > 0.0001, computed without forming 10000 * numerator
EpsDen == 10000
\* mutant of ExceedsEps: the difference is compared without abs
ExceedsEpsSigned(x) == x[1] > x[2] \div EpsDen

ExceedsEps(x) == Abs(x[1]) > x[2] \div EpsDen

MaxIterations == 15

RECURSIVE WeightSum(_, _)
\* sum(toFloat(e.weight)) over the EXPOSED_TO relationships ks
WeightSum(ks, wt) ==
    IF ks = {} THEN Zero
    ELSE LET k == CHOOSE x \in ks : TRUE
         IN  RAdd(wt[k], WeightSum(ks \ {k}, wt))

Exposures(c) == {k \in exposed : k[1] = c}

\* mutant of SeedDirect: the weight sum is added to the stored direct_risk
SeedDirectAdding(wt, dr) ==
    Tabulate(Nodes, [n \in Nodes |->
        IF n \in Companies /\ Exposures(n) # {}
        THEN RAdd(Coalesce(dr[n]), WeightSum(Exposures(n), wt))
        ELSE IF n \in Owners THEN Coalesce(dr[n])
        ELSE dr[n]])

\* SET n.total_risk = 0.0, n.direct_risk = coalesce(n.direct_risk, 0.0), then
\* direct_risk = total_risk = sum of weights for every Company that has an
\* EXPOSED_TO relationship, then total_risk = 0.0 for Blockholders without one
SeedDirect(wt, dr) ==
    Tabulate(Nodes, [n \in Nodes |->
        IF n \in Companies /\ Exposures(n) # {} THEN WeightSum(Exposures(n), wt)
        ELSE IF n \in Owners THEN Coalesce(dr[n])
        ELSE dr[n]])

SeedTotal(wt, tr) ==
    Tabulate(Nodes, [n \in Nodes |->
        IF n \in Companies /\ Exposures(n) # {} THEN WeightSum(Exposures(n), wt)
        ELSE IF n \in Owners THEN Zero
        ELSE tr[n]])

\* MATCH (p)-[o:OWNS]->(c:Company) WHERE c.total_risk IS NOT NULL
\*   AND (p:Company OR p:Blockholder)
Owned(es, tr, p) ==
    {e \in es : e.src = p /\ p \in Owners /\ e.dst \in Companies
                  /\ tr[e.dst] # Null}

RECURSIVE Inherited(_, _)
\* sum(toFloat(o.percent) * toFloat(coalesce(c.total_risk, 0)))
Inherited(es, tr) ==
    IF es = {} THEN Zero
    ELSE LET e == CHOOSE x \in es : TRUE
         IN  RAdd(RMul(e.percent, Coalesce(tr[e.dst])), Inherited(es \ {e}, tr))

NewTotal(es, dr, tr, p) == RAdd(Coalesce(dr[p]), Inherited(Owned(es, tr, p), tr))

\* the owners one round updates: every sum is read before any SET is applied
Updated(es, dr, tr) ==
    {p \in Owners :
        /\ Owned(es, tr, p) # {}
        /\ ExceedsEps(RSub(Coalesce(tr[p]), NewTotal(es, dr, tr, p)))}

\* mutant of PropagateRiskStep: the owners are updated one after the other,
\* each reading what the ones before it wrote
PropagateRiskStepInPlace(es, dr, tr) ==
    LET one(t, n) == IF n \in Updated(es, dr, t)
                     THEN [t EXCEPT ![n] = NewTotal(es, dr, t, n)] ELSE t
    IN  one(one(one(one(tr, "C_3"), "C_2"), "C_1"), "B_1")

\* SET p.total_risk = new_total for the rows whose change exceeds 0.0001
PropagateRiskStep(es, dr, tr) ==
    LET updates == Updated(es, dr, tr)
    IN  Tabulate(Nodes, [n \in Nodes |->
            IF n \in updates THEN NewTotal(es, dr, tr, n) ELSE tr[n]])

RECURSIVE PropagateOneMore(_, _, _, _, _)
\* mutant of Propagate: the loop tests iteration <= max_iterations
PropagateOneMore(es, dr, tr, iteration, max) ==
    IF iteration > max
    THEN [total |-> tr, iteration |-> iteration, updated |-> TRUE,
          rounds |-> <<tr>>]
    ELSE IF Updated(es, dr, tr) = {}
    THEN [total |-> tr, iteration |-> iteration + 1, updated |-> FALSE,
          rounds |-> <<tr, tr>>]
    ELSE LET r == PropagateOneMore(es, dr, PropagateRiskStep(es, dr, tr),
                                   iteration + 1, max)
         IN  [r EXCEPT !.rounds = <<tr>> \o @]

RECURSIVE Propagate(_, _, _, _, _)
\* while updated and iteration < max_iterations; rounds lists total_risk as
\* the loop found it and as every executed round left it
Propagate(es, dr, tr, iteration, max) ==
    IF iteration >= max
    THEN [total |-> tr, iteration |-> iteration, updated |-> TRUE,
          rounds |-> <<tr>>]
    ELSE IF Updated(es, dr, tr) = {}
    THEN [total |-> tr, iteration |-> iteration + 1, updated |-> FALSE,
          rounds |-> <<tr, tr>>]
    ELSE LET r == Propagate(es, dr, PropagateRiskStep(es, dr, tr),
                            iteration + 1, max)
         IN  [r EXCEPT !.rounds = <<tr>> \o @]

\* mutant of ComputeTotalRisk: the warning tests iteration >= max_iterations
\* alone
ComputeTotalRiskWarningAtCap(es, wt, dr, tr, max) ==
    LET d == SeedDirect(wt, dr)
        r == IF max <= 0
             THEN [total |-> SeedTotal(wt, tr), iteration |-> 0,
                   updated |-> TRUE, rounds |-> <<SeedTotal(wt, tr)>>]
             ELSE Propagate(es, d, SeedTotal(wt, tr), 0, max)
    IN  [direct |-> d, total |-> r.total, iteration |-> r.iteration,
         updated |-> r.updated, rounds |-> r.rounds,
         warning |-> r.iteration >= max]

\* reset and seed, the loop, then the WARNING branch when
\* iteration >= max_iterations and updated
ComputeTotalRisk(es, wt, dr, tr, max) ==
    LET d == SeedDirect(wt, dr)
        r == IF max <= 0
             THEN [total |-> SeedTotal(wt, tr), iteration |-> 0,
                   updated |-> TRUE, rounds |-> <<SeedTotal(wt, tr)>>]
             ELSE Propagate(es, d, SeedTotal(wt, tr), 0, max)
    IN  [direct |-> d, total |-> r.total, iteration |-> r.iteration,
         updated |-> r.updated, rounds |-> r.rounds,
         warning |-> (r.iteration >= max /\ r.updated)]

\* --------------------------------------------------------- dollarize_risk
market_cap ==
    [c \in Companies |->
        IF c = "C_1" THEN R(100, 1) ELSE IF c = "C_2" THEN R(10, 1) ELSE Null]

\* mutant of DollarizeCompanies: a company without market_cap is skipped
DollarizeCompaniesWithCap(tr, dz) ==
    Tabulate(Nodes, [n \in Nodes |->
        IF n \in Companies /\ market_cap[n] # Null
        THEN RMul(Coalesce(tr[n]), market_cap[n])
        ELSE dz[n]])

\* SET c.dollarized_risk = coalesce(c.total_risk, 0) * coalesce(c.market_cap, 0)
DollarizeCompanies(tr, dz) ==
    Tabulate(Nodes, [n \in Nodes |->
        IF n \in Companies THEN RMul(Coalesce(tr[n]), Coalesce(market_cap[n]))
        ELSE dz[n]])

HeldBy(es, b) == {e \in es : e.src = b /\ e.dst \in Companies}

RECURSIVE InheritedDollars(_, _)
\* sum(coalesce(o.percent, 0) * coalesce(c.dollarized_risk, 0))
InheritedDollars(es, dz) ==
    IF es = {} THEN Zero
    ELSE LET e == CHOOSE x \in es : TRUE
         IN  RAdd(RMul(e.percent, Coalesce(dz[e.dst])),
                  InheritedDollars(es \ {e}, dz))

\* MATCH (bh:Blockholder)-[o:OWNS]->(c:Company) ... SET bh.dollarized_risk
DollarizeBlockholders(es, dz) ==
    Tabulate(Nodes, [n \in Nodes |->
        IF n \in Blockholders /\ HeldBy(es, n) # {}
        THEN InheritedDollars(HeldBy(es, n), dz)
        ELSE dz[n]])

ExposedCompanies(r) == {k \in exposed : k[2] = r}

RECURSIVE DollarExposure(_, _, _)
\* sum(coalesce(c.dollarized_risk, 0) * coalesce(e.weight, 0))
DollarExposure(ks, wt, dz) ==
    IF ks = {} THEN Zero
    ELSE LET k == CHOOSE x \in ks : TRUE
         IN  RAdd(RMul(Coalesce(dz[k[1]]), Coalesce(wt[k])),
                  DollarExposure(ks \ {k}, wt, dz))

\* MATCH (c:Company)-[e:EXPOSED_TO]->(rf:RiskFactor) ... SET rf.dollarized_risk
DollarizeRiskFactors(wt, dz) ==
    Tabulate(Nodes, [n \in Nodes |->
        IF n \in RiskFactors /\ ExposedCompanies(n) # {}
        THEN DollarExposure(ExposedCompanies(n), wt, dz)
        ELSE dz[n]])

DollarizeRisk(es, wt, tr, dz) ==
    DollarizeRiskFactors(wt, DollarizeBlockholders(es, DollarizeCompanies(tr, dz)))

\* ------------------------------------------ export_snapshot, generate_diff
\* A snapshot file: exists is FALSE when the path is missing or the file is
\* empty; rows maps the id of every company written to its dollarized_risk
\* (the other columns are copied through and not modelled).
NoSnapshot == [exists |-> FALSE, rows |-> <<>>]
NoReport == [exists |-> FALSE, rows |-> {}]
NoFiles == [before |-> NoSnapshot, after |-> NoSnapshot, diff |-> NoReport]

\* MATCH (c:Company) RETURN c.id, ..., coalesce(c.dollarized_risk, 0), ...
ExportSnapshot(dz) ==
    [exists |-> TRUE,
     rows |-> Tabulate(Companies, [c \in Companies |-> Coalesce(dz[c])])]

\* round(x, 2): the nearest hundredth, a tie going to the even one
Round2(x) ==
    LET y == RMul(x, R(100, 1))
        q == y[1] \div y[2]
        r == 2 * (y[1] - q * y[2])
    IN  R(IF r > y[2] \/ (r = y[2] /\ q % 2 = 1) THEN q + 1 ELSE q, 100)

\* x.get("dollarized_risk", 0) or 0, for the entry of cid in a snapshot
DollarsIn(snap, cid) ==
    IF cid \in DOMAIN snap.rows THEN Coalesce(snap.rows[cid]) ELSE Zero

\* mutant of DiffRows: the noise floor test is abs(delta) >= 0.01
DiffRowsAtFloor(before, after) ==
    {[id |-> cid,
      risk_before |-> Round2(DollarsIn(before, cid)),
      risk_after |-> Round2(DollarsIn(after, cid)),
      delta |-> Round2(RSub(DollarsIn(after, cid), DollarsIn(before, cid)))] :
        cid \in {c \in DOMAIN after.rows :
                    ~RLess(RAbs(RSub(DollarsIn(after, c), DollarsIn(before, c))),
                           R(1, 100))}}

\* for cid, after_data in after.items(): ... if abs(delta) > 0.01: append
DiffRows(before, after) ==
    {[id |-> cid,
      risk_before |-> Round2(DollarsIn(before, cid)),
      risk_after |-> Round2(DollarsIn(after, cid)),
      delta |-> Round2(RSub(DollarsIn(after, cid), DollarsIn(before, cid)))] :
        cid \in {c \in DOMAIN after.rows :
                    RLess(R(1, 100),
                          RAbs(RSub(DollarsIn(after, c), DollarsIn(before, c))))}}

\* generate_diff: returns without writing when a snapshot is missing or
\* empty (old is the report the path held), else writes the rows
GenerateDiff(before, after, old) ==
    IF ~before.exists \/ ~after.exists THEN old
    ELSE [exists |-> TRUE, rows |-> DiffRows(before, after)]

\* the browser sessions of the app; at first none runs a scenario
Sessions == {1, 2}
NoSessions ==
    [s \in Sessions |-> [pc |-> "idle", job |-> <<>>, began |-> <<>>,
                          report |-> NoReport]]

\* ------------------------------------------------------------ the system
NoRisk == [n \in Nodes |-> Null]

\* initialize_risk_engine: the engine is constructed, then compute_total_risk
\* and dollarize_risk run once on the graph found in the store
InitRisk(es, wt) == ComputeTotalRisk(es, wt, NoRisk, NoRisk, MaxIterations)

\* The graph found in the store when the engine is constructed: C_1 is held
\* by a blockholder and a company, C_2 was acquired by C_3 in an earlier
\* session and is also held by a blockholder, C_2 and C_3 hold each other.
InitOwns ==
    {Edge("B_1", "C_1", Half, LoadYear, FALSE),
     Edge("C_2", "C_1", Half, LoadYear, FALSE),
     Edge("B_1", "C_2", One, LoadYear, FALSE),
     Edge("C_3", "C_2", Half, CurrentYear, TRUE),
     Edge("C_2", "C_3", Half, LoadYear, FALSE)}

RoleOf(es) ==
    [c \in Companies |->
        IF \E e \in Incoming(es, c) : e.acq THEN "acquired" ELSE "company"]

InitWeight ==
    [k \in ExposedTo |-> IF k = <<"C_2", "Flood">> THEN One ELSE Half]

InitState(es) ==
    /\ exposed = ExposedTo
    /\ calls = <<>>
    /\ owns = es
    /\ role = RoleOf(owns)
    /\ weight = InitWeight
    /\ direct_risk = InitRisk(owns, weight).direct
    /\ total_risk = InitRisk(owns, weight).total
    /\ dollarized_risk = DollarizeRisk(owns, weight, total_risk, NoRisk)
    /\ last = [op |-> "none", args |-> <<>>, ret |-> FALSE, exc |-> FALSE,
               hit |-> {}]
    /\ nops = 0
    /\ files = NoFiles
    /\ sessions = NoSessions

Init == InitState(InitOwns)

\* the same graph before any acquisition was simulated on it
InitOwnsNoAcq ==
    {IF e.acq THEN Edge(e.src, e.dst, e.percent, LoadYear, FALSE) ELSE e :
        e \in InitOwns}

InitNoAcq == InitState(InitOwnsNoAcq)

Next ==
    \/ \E a \in AcquisitionInputs, f \in 0..4 :
          Acquisition(a[1][1], a[1][2], a[2], f)
    \/ \E a \in DivestitureInputs, f \in 0..3 : Divestiture(a[1], a[2], f)
    \/ \E a \in RiskEventInputs, f \in 0..1 :
          RiskEvent(a[1], a[2], a[3], a[4], a[5], f)

Spec == Init /\ [][Next]_vars

\* the scenario operators on a graph in which no company has role 'acquired'
SpecNoAcq == InitNoAcq /\ [][Next]_vars

\* ------------------------------------ the risk engine on graphs of any shape
\* Ownership graphs the store may hold when compute_total_risk runs: empty,
\* chains, a diamond, a self-loop, two-cycles of percent below, at and above
\* one, and the graph of Init.
RiskGraphs ==
    {{},
     {Edge("B_1", "C_1", Half, LoadYear, FALSE),
      Edge("C_1", "C_2", Half, LoadYear, FALSE),
      Edge("C_2", "C_3", One, LoadYear, FALSE)},
     {Edge("B_1", "C_3", Half, LoadYear, FALSE)},
     {Edge("C_1", "C_2", Half, LoadYear, FALSE),
      Edge("C_1", "C_3", Half, LoadYear, FALSE),
      Edge("C_2", "C_3", Half, LoadYear, FALSE),
      Edge("B_1", "C_1", One, LoadYear, FALSE)},
     {Edge("C_1", "C_1", Half, CurrentYear, TRUE),
      Edge("B_1", "C_1", Half, LoadYear, FALSE)},
     {Edge("C_2", "C_3", Half, LoadYear, FALSE),
      Edge("C_3", "C_2", Half, LoadYear, FALSE),
      Edge("B_1", "C_2", Half, LoadYear, FALSE)},
     {Edge("C_2", "C_3", One, LoadYear, FALSE),
      Edge("C_3", "C_2", One, LoadYear, FALSE)},
     {Edge("C_2", "C_3", R(3, 2), LoadYear, FALSE),
      Edge("C_3", "C_2", One, LoadYear, FALSE),
      Edge("C_1", "C_2", Half, LoadYear, FALSE)},
     InitOwns}

\* the EXPOSED_TO relationships the store may hold
RiskExposures ==
    {ExposedTo,
     {<<"C_1", "Flood">>, <<"C_1", "Quake">>},
     {<<"C_3", "Flood">>},
     {}}

\* the weights: those of Init, or a weight of 0.0001 on C_3's exposure
RiskWeights ==
    {InitWeight, [InitWeight EXCEPT ![<<"C_3", "Flood">>] = R(1, 10000)]}

\* risk fields an earlier run left in the store
EarlierDirect ==
    [n \in Nodes |-> IF n \in Companies THEN Half
                     ELSE IF n \in Blockholders THEN Zero ELSE Null]
EarlierTotal ==
    [n \in Nodes |-> IF n \in Companies THEN One
                     ELSE IF n \in Blockholders THEN Half ELSE Null]
EarlierDollars == [n \in Nodes |-> R(5, 1)]

\* max_iterations values compute_total_risk is called with
MaxIterationsInputs == {0, 1, 2, MaxIterations}

InitGraphs ==
    /\ exposed \in RiskExposures
    /\ calls = <<>>
    /\ owns \in RiskGraphs
    /\ role = RoleOf(owns)
    /\ weight \in RiskWeights
    /\ \E earlier \in BOOLEAN :
          /\ direct_risk = IF earlier THEN EarlierDirect ELSE NoRisk
          /\ total_risk = IF earlier THEN EarlierTotal ELSE NoRisk
          /\ dollarized_risk = IF earlier THEN EarlierDollars ELSE NoRisk
    /\ last = [op |-> "none", args |-> <<>>, ret |-> FALSE, exc |-> FALSE,
               hit |-> {}]
    /\ nops = 0
    /\ files = NoFiles
    /\ sessions = NoSessions

\* one call of compute_total_risk(max); ret is the number of rounds run,
\* whether the last round still updated a node, whether the warning was
\* printed, and total_risk after seeding and after each round
ComputeRisk(max) ==
    /\ nops < MaxOps
    /\ LET r == ComputeTotalRisk(owns, weight, direct_risk, total_risk, max)
       IN  /\ direct_risk' = r.direct
           /\ total_risk' = r.total
           /\ last' = [op |-> "compute_total_risk", args |-> <<max>>,
                       ret |-> <<r.iteration, r.updated, r.warning,
                                r.rounds>>, exc |-> FALSE,
                       hit |-> {}]
    /\ nops' = nops + 1
    /\ calls' = Append(calls, "compute_total_risk")
    /\ UNCHANGED <<owns, role, weight, dollarized_risk, exposed, files,
                   sessions>>

\* one call of dollarize_risk()
Dollarize ==
    /\ nops < MaxOps
    /\ dollarized_risk' = DollarizeRisk(owns, weight, total_risk, dollarized_risk)
    /\ last' = [op |-> "dollarize_risk", args |-> <<>>, ret |-> FALSE,
                exc |-> FALSE, hit |-> {}]
    /\ nops' = nops + 1
    /\ calls' = Append(calls, "dollarize_risk")
    /\ UNCHANGED <<owns, role, weight, direct_risk, total_risk, exposed,
                   files, sessions>>

\* compute_total_risk then dollarize_risk, as initialize_risk_engine and the
\* scenario handlers run them
RiskPass ==
    /\ nops < MaxOps
    /\ LET r == ComputeTotalRisk(owns, weight, direct_risk, total_risk,
                                 MaxIterations)
       IN  /\ direct_risk' = r.direct
           /\ total_risk' = r.total
           /\ dollarized_risk' =
                  DollarizeRisk(owns, weight, r.total, dollarized_risk)
           /\ last' = [op |-> "risk_pass", args |-> <<MaxIterations>>,
                       ret |-> <<r.iteration, r.updated, r.warning,
                                r.rounds>>, exc |-> FALSE,
                       hit |-> {}]
    /\ nops' = nops + 1
    /\ calls' = calls \o <<"compute_total_risk", "dollarize_risk">>
    /\ UNCHANGED <<owns, role, weight, exposed, files, sessions>>

NextRisk ==
    \/ \E max \in MaxIterationsInputs : ComputeRisk(max)
    \/ Dollarize
    \/ RiskPass

SpecRisk == InitGraphs /\ [][NextRisk]_vars

\* ------------------------------------------- the scenario handlers of app
\* what the forms of the app offer: companies by name, a percent in 0..1,
\* a risk factor of the graph, a multiplier in 0..5 and a target option
AcquisitionForms == (Companies \X Companies) \X {Half, One}
DivestitureForms == Companies \X Companies
RiskEventForms ==
    {"Flood", "Quake"} \X {Half, R(2, 1)}
        \X {<<None, None, None>>, <<"C_1", None, None>>,
            <<None, "Energy", "CA">>}

\* The handler after the operator returned: on success compute_total_risk(),
\* dollarize_risk(), the after-snapshot and the diff; otherwise an error
\* message only.  es, rl, wt: the graph the operator left.
AfterOperator(es, rl, wt, success, operator) ==
    /\ owns' = es
    /\ role' = rl
    /\ weight' = wt
    /\ IF success
       THEN LET r == ComputeTotalRisk(es, wt, direct_risk, total_risk,
                                     MaxIterations)
            IN  /\ direct_risk' = r.direct
                /\ total_risk' = r.total
                /\ dollarized_risk' =
                       DollarizeRisk(es, wt, r.total, dollarized_risk)
                /\ files' =
                       LET b == ExportSnapshot(dollarized_risk)
                           a == ExportSnapshot(dollarized_risk')
                       IN  [before |-> b, after |-> a,
                            diff |-> GenerateDiff(b, a, files.diff)]
       ELSE /\ UNCHANGED <<direct_risk, total_risk, dollarized_risk>>
            /\ files' = [files EXCEPT
                            !.before = ExportSnapshot(dollarized_risk)]
    /\ calls' = <<"export_snapshot_before", operator>> \o
                IF success
                THEN <<"compute_total_risk", "dollarize_risk",
                       "export_snapshot_after", "generate_diff">>
                ELSE <<>>
    /\ nops' = nops + 1
    /\ UNCHANGED <<exposed, sessions>>

\* "Run Acquisition Scenario"
RunAcquisitionScenario(z, t, p, f) ==
    /\ nops < MaxOps
    /\ LET r == SimulateAcquisition(owns, role, z, t, p, f)
       IN  /\ AfterOperator(r.owns, r.role, weight, r.ret, "simulate_acquisition")
           /\ last' = [op |-> "acquisition", args |-> <<z, t, p>>,
                       ret |-> r.ret, exc |-> r.exc, hit |-> {}]

\* "Run Divestiture Scenario"
RunDivestitureScenario(d, t, f) ==
    /\ nops < MaxOps
    /\ LET r == SimulateDivestiture(owns, role, d, t, f)
       IN  /\ AfterOperator(r.owns, r.role, weight, r.ret, "simulate_divestiture")
           /\ last' = [op |-> "divestiture", args |-> <<d, t>>,
                       ret |-> r.ret, exc |-> r.exc, hit |-> {}]

\* "Run Risk Event Scenario"
RunRiskEventScenario(name, m, cid, sec, loc, f) ==
    /\ nops < MaxOps
    /\ LET r == SimulateRiskEvent(weight, name, m, cid, sec, loc, f)
       IN  /\ \A k \in ExposedTo : r.weight[k][2] <= MaxDen
           /\ AfterOperator(owns, role, r.weight, r.ret > 0, "simulate_risk_event")
           /\ last' = [op |-> "risk_event", args |-> <<name, m, cid, sec, loc>>,
                       ret |-> r.ret, exc |-> r.exc, hit |-> r.hit]

NextApp ==
    \/ \E a \in AcquisitionForms, f \in 0..4 :
          RunAcquisitionScenario(a[1][1], a[1][2], a[2], f)
    \/ \E a \in DivestitureForms, f \in 0..3 :
          RunDivestitureScenario(a[1], a[2], f)
    \/ \E a \in RiskEventForms, f \in 0..1 :
          RunRiskEventScenario(a[1], a[2], a[3][1], a[3][2], a[3][3], f)

\* the app: initialize_risk_engine, then scenario handlers
SpecApp == Init /\ [][NextApp]_vars

\* ------------------------------------------- generate_diff on any two files
\* the companies and the dollarized_risk values (None included) the two
\* snapshot files may hold
SnapshotIds == {"C_1", "C_2"}
DollarInputs == {Null, Zero, R(1, 100), R(21, 1000)}
SnapshotInputs ==
    {NoSnapshot} \cup
    {[exists |-> TRUE, rows |-> r] :
        r \in UNION {[D -> DollarInputs] : D \in SUBSET SnapshotIds}}

\* generate_diff(before_path, after_path) called when the two paths hold the
\* snapshots b and a
GenerateDiffOn(b, a) ==
    /\ files' = [before |-> b, after |-> a,
                 diff |-> GenerateDiff(b, a, files.diff)]
    /\ last' = [op |-> "generate_diff", args |-> <<>>, ret |-> FALSE,
                exc |-> FALSE, hit |-> {}]
    /\ UNCHANGED <<owns, role, weight, direct_risk, total_risk,
                   dollarized_risk, nops, exposed, calls, sessions>>

NextDiff == \E b \in SnapshotInputs, a \in SnapshotInputs : GenerateDiffOn(b, a)

SpecDiff == Init /\ [][NextDiff]_vars

\* ------------------------------------------- get_critical_nodes_by_degree
\* n.name of the Company and Blockholder nodes: all different, or the
\* blockholder B_1 carrying the name of the company C_2 (a company that
\* holds blocks is stored once under each label)
NodeNames ==
    {("C_1" :> "Acme") @@ ("C_2" :> "Beta") @@ ("C_3" :> "Gamma")
        @@ ("B_1" :> "Delta"),
     ("C_1" :> "Acme") @@ ("C_2" :> "Beta") @@ ("C_3" :> "Gamma")
        @@ ("B_1" :> "Beta")}

\* top_n of the call: config.TOP_N_CRITICAL_NODES and smaller values
TopNCriticalNodes == 10
TopNInputs == {1, 2, TopNCriticalNodes}

\* the rows MATCH (n)-[r]-() yields for node n: one for every relationship
\* that starts or ends at n
Degree(es, n) ==
    Cardinality({e \in es : e.src = n \/ e.dst = n})
        + Cardinality({k \in exposed : k[1] = n})

RECURSIVE DegreeSum(_, _)
DegreeSum(es, ns) ==
    IF ns = {} THEN 0
    ELSE LET n == CHOOSE x \in ns : TRUE
         IN  Degree(es, n) + DegreeSum(es, ns \ {n})

\* RETURN n.name AS name, count(r) AS degree: one row for every value of
\* n.name among the matched nodes, counting the rows of all nodes of that name
DegreeRows(es, nm) ==
    {<<x, DegreeSum(es, {n \in Owners : nm[n] = x})>> :
        x \in {nm[n] : n \in {o \in Owners : Degree(es, o) > 0}}}

\* ORDER BY degree DESC: every order of the rows in which no degree
\* increases; the order among rows of equal degree is the store's
DegreeOrders(rows) ==
    {s \in [1..Cardinality(rows) -> rows] :
        /\ \A i, j \in DOMAIN s : i # j => s[i] # s[j]
        /\ \A i, j \in DOMAIN s : i < j => s[i][2] >= s[j][2]}

\* LIMIT $n
Limit(s, n) == SubSeq(s, 1, IF n < Len(s) THEN n ELSE Len(s))

\* one call of get_critical_nodes_by_degree(top_n) on a store whose nodes
\* carry the names nm, the store returning the order s
GetCriticalNodesByDegree(top_n, nm, s) ==
    /\ s \in DegreeOrders(DegreeRows(owns, nm))
    /\ last' = [op |-> "critical_nodes", args |-> <<top_n, nm>>,
                ret |-> Limit(s, top_n), exc |-> FALSE, hit |-> {}]
    /\ UNCHANGED <<owns, role, weight, direct_risk, total_risk,
                   dollarized_risk, nops, exposed, calls, files, sessions>>

NextDegree ==
    \E top_n \in TopNInputs, nm \in NodeNames :
        \E s \in DegreeOrders(DegreeRows(owns, nm)) :
            GetCriticalNodesByDegree(top_n, nm, s)

SpecDegree == InitGraphs /\ [][NextDegree]_vars

\* --------------------------------- scenario handlers of several sessions
\* Every browser session runs the script of the app on its own; the
\* handlers hold no lock, share the store and write the same three paths.
\* A handler is the sequence of its engine calls, each call one step.
\* the scenarios a session runs: a filled form and its button
SessionJobs ==
    {<<"acquisition", "C_1", "C_3", Half>>,
     <<"divestiture", "C_2", "C_1">>,
     <<"risk_event", "Flood", R(2, 1)>>}

\* the graph and risk fields of the store
Store ==
    [owns |-> owns, role |-> role, weight |-> weight, direct |-> direct_risk,
     total |-> total_risk, dollars |-> dollarized_risk]

\* the operator of job on the store g: the graph it leaves and its success
OperatorOf(job, g) ==
    IF job[1] = "acquisition"
    THEN LET r == SimulateAcquisition(g.owns, g.role, job[2], job[3], job[4], 0)
         IN  [owns |-> r.owns, role |-> r.role, weight |-> g.weight,
              success |-> r.ret]
    ELSE IF job[1] = "divestiture"
    THEN LET r == SimulateDivestiture(g.owns, g.role, job[2], job[3], 0)
         IN  [owns |-> r.owns, role |-> r.role, weight |-> g.weight,
              success |-> r.ret]
    ELSE LET r == SimulateRiskEvent(g.weight, job[2], job[3], None, None,
                                    None, 0)
         IN  [owns |-> g.owns, role |-> g.role, weight |-> r.weight,
              success |-> r.ret > 0]

\* the button is pressed: export_snapshot("output/snapshot_before.json")
StartScenario(s, job) ==
    /\ sessions[s].pc = "idle"
    /\ files' = [files EXCEPT !.before = ExportSnapshot(dollarized_risk)]
    /\ sessions' = [sessions EXCEPT ![s] =
                       [pc |-> "operator", job |-> job, began |-> Store,
                        report |-> NoReport]]
    /\ UNCHANGED <<owns, role, weight, direct_risk, total_risk,
                   dollarized_risk, last, nops, exposed, calls>>

\* success = simulate_...(...); if success: ... else: error message
Operate(s) ==
    /\ sessions[s].pc = "operator"
    /\ LET r == OperatorOf(sessions[s].job, Store)
       IN  /\ \A k \in ExposedTo : r.weight[k][2] <= MaxDen
           /\ owns' = r.owns
           /\ role' = r.role
           /\ weight' = r.weight
           /\ sessions' = [sessions EXCEPT ![s].pc =
                              IF r.success THEN "compute" ELSE "error"]
    /\ UNCHANGED <<direct_risk, total_risk, dollarized_risk, last, nops,
                   exposed, calls, files>>

\* compute_total_risk()
ComputeStep(s) ==
    /\ sessions[s].pc = "compute"
    /\ LET r == ComputeTotalRisk(owns, weight, direct_risk, total_risk,
                                 MaxIterations)
       IN  /\ direct_risk' = r.direct
           /\ total_risk' = r.total
    /\ sessions' = [sessions EXCEPT ![s].pc = "dollarize"]
    /\ UNCHANGED <<owns, role, weight, dollarized_risk, last, nops, exposed,
                   calls, files>>

\* dollarize_risk()
DollarizeStep(s) ==
    /\ sessions[s].pc = "dollarize"
    /\ dollarized_risk' = DollarizeRisk(owns, weight, total_risk, dollarized_risk)
    /\ sessions' = [sessions EXCEPT ![s].pc = "after"]
    /\ UNCHANGED <<owns, role, weight, direct_risk, total_risk, last, nops,
                   exposed, calls, files>>

\* export_snapshot("output/snapshot_after.json")
ExportAfter(s) ==
    /\ sessions[s].pc = "after"
    /\ files' = [files EXCEPT !.after = ExportSnapshot(dollarized_risk)]
    /\ sessions' = [sessions EXCEPT ![s].pc = "diff"]
    /\ UNCHANGED <<owns, role, weight, direct_risk, total_risk,
                   dollarized_risk, last, nops, exposed, calls>>

\* generate_diff(before, after); diff_df = pd.read_csv("output/diff_report.csv")
DiffStep(s) ==
    /\ sessions[s].pc = "diff"
    /\ LET d == GenerateDiff(files.before, files.after, files.diff)
       IN  /\ files' = [files EXCEPT !.diff = d]
           /\ sessions' = [sessions EXCEPT ![s].pc = "done", ![s].report = d]
    /\ UNCHANGED <<owns, role, weight, direct_risk, total_risk,
                   dollarized_risk, last, nops, exposed, calls>>

NextSessions ==
    \E s \in Sessions :
        \/ \E job \in SessionJobs : StartScenario(s, job)
        \/ Operate(s)
        \/ ComputeStep(s)
        \/ DollarizeStep(s)
        \/ ExportAfter(s)
        \/ DiffStep(s)

SpecSessions == Init /\ [][NextSessions]_vars

\* =================================================================== claims
\* a step that is a call of the named operator (every call renews last)
Called(op) == last'.op = op /\ nops' = nops + 1

OwnsEdge(es, p, c) == {e \in es : e.src = p /\ e.dst = c}

\* C1: after a successful simulate_acquisition(Z, T, p) the only incoming
\* OWNS edge of T is Z->T, that edge has percent p, and T has role 'acquired'.
C1_AcquisitionReplacesOwners ==
    (last.op = "acquisition" /\ last.ret) =>
        LET z == last.args[1]
            t == last.args[2]
            p == last.args[3]
        IN  /\ Cardinality(Incoming(owns, t)) = 1
            /\ \A e \in Incoming(owns, t) : e.src = z /\ e.percent = p
            /\ role[t] = "acquired"

\* C1 witness: C_3 has acquired C_1, which a blockholder and a company held
C1_Witness ==
    /\ nops = 1
    /\ last.op = "acquisition" /\ last.ret
    /\ last.args = <<"C_3", "C_1", R(3, 2)>>
    /\ Incoming(owns, "C_1") = {Edge("C_3", "C_1", R(3, 2), CurrentYear, TRUE)}

\* C2: each scenario operator is all-or-nothing: a call in which a store
\* operation fails leaves OWNS edges, percents, weights and roles as before.
C2_AllOrNothing ==
    [][(nops' = nops + 1 /\ last'.exc) =>
          (owns' = owns /\ role' = role /\ weight' = weight)]_vars

\* C3: simulate_acquisition returns False and leaves every edge and role
\* unchanged when the acquirer or the target names no existing Company.
C3_AcquisitionNotFound ==
    [][(Called("acquisition") /\ (last'.args[1] \notin Companies
                                   \/ last'.args[2] \notin Companies)) =>
          (last'.ret = FALSE /\ owns' = owns /\ role' = role
            /\ weight' = weight)]_vars

\* C3 witness: an acquisition by the blockholder's id was refused
C3_Witness ==
    /\ last.op = "acquisition" /\ ~last.ret /\ ~last.exc
    /\ last.args[1] = "B_1" /\ last.args[2] = "C_1"
    /\ owns = InitOwns /\ role = RoleOf(InitOwns)

\* C4: simulate_divestiture(owner, target) deletes exactly the
\* edge owner->target and returns True whenever that edge exists, for a
\* Company or Blockholder owner (no store operation failing); when the edge
\* does not exist it returns False and leaves the graph unchanged.
C4_DivestitureAnyOwner ==
    [][(Called("divestiture") /\ ~last'.exc) =>
          LET gone == OwnsEdge(owns, last'.args[1], last'.args[2])
          IN  /\ gone # {} => (last'.ret = TRUE /\ owns' = owns \ gone)
              /\ gone = {} => (last'.ret = FALSE /\ owns' = owns
                                /\ role' = role)]_vars

\* C5: after a successful divestiture the target's role is
\* 'company' if it has no remaining incoming OWNS edge of any kind, and is
\* what it was if any owner, Company or Blockholder, remains.
C5_RoleResetAnyOwner ==
    [][(Called("divestiture") /\ last'.ret = TRUE) =>
          LET t == last'.args[2]
          IN  IF Incoming(owns', t) = {} THEN role'[t] = "company"
              ELSE role'[t] = role[t]]_vars

\* C6: from a graph with no 'acquired' company, in every state a company has
\* role 'acquired' iff it has an incoming OWNS edge created by an acquisition.
C6_AcquiredIffAcquisitionEdge ==
    \A c \in Companies :
        role[c] = "acquired" <=> \E e \in Incoming(owns, c) : e.acq

\* C7: a committed risk event with multiplier m sets every matched weight w
\* to w * m clamped to [0, 1] and leaves every other weight unchanged.
C7_WeightsClamped ==
    [][(Called("risk_event") /\ ~last'.exc) =>
          \A k \in ExposedTo :
              LET x == RMul(weight[k], last'.args[2])
              IN  IF k \in last'.hit
                  THEN /\ ~RLess(weight'[k], Zero) /\ ~RLess(One, weight'[k])
                       /\ RLess(One, x) => weight'[k] = One
                       /\ RLess(x, Zero) => weight'[k] = Zero
                       /\ (~RLess(One, x) /\ ~RLess(x, Zero)) => weight'[k] = x
                       /\ last'.args[2] = Zero => weight'[k] = Zero
                  ELSE weight'[k] = weight[k]]_vars

\* C7 witness: multiplier 2 on Flood took 1/2 to 1, kept 1 at 1 by clamping
\* and left the Quake exposure alone
C7_Witness ==
    /\ nops = 1
    /\ last.op = "risk_event" /\ last.args = <<"Flood", R(2, 1), None, "", None>>
    /\ weight[<<"C_1", "Flood">>] = One /\ weight[<<"C_2", "Flood">>] = One
    /\ weight[<<"C_1", "Quake">>] = Half

\* the filters of a risk event that restrict the match
FilterSet(x, S) == IF x = None \/ x = "" THEN Companies ELSE S

\* C8: the edges a risk event changes are exactly those pointing at the named
\* RiskFactor from a company that satisfies every provided filter.
C8_MatchSet ==
    [][(Called("risk_event") /\ ~last'.exc) =>
          LET a == last'.args
              cs == FilterSet(a[3], {a[3]})
                    \cap FilterSet(a[4], {c \in Companies : sector[c] = a[4]})
                    \cap FilterSet(a[5], {c \in Companies : location[c] = a[5]})
          IN  /\ last'.hit = {k \in ExposedTo : k[2] = a[1] /\ k[1] \in cs}
              /\ \A k \in ExposedTo \ last'.hit : weight'[k] = weight[k]
              /\ \A k \in last'.hit : weight'[k] = NewWeight(weight[k], a[2])]_vars

\* C8 witness: sector and location together select C_1 alone
C8_Witness ==
    /\ last.op = "risk_event" /\ ~last.exc
    /\ last.args[3] = None /\ last.args[4] = "Tech" /\ last.args[5] = "NY"
    /\ last.hit = {<<"C_1", "Flood">>}

\* C9: simulate_risk_event returns the number of edges it updated; when no
\* exposure matches it returns 0 and leaves every weight unchanged.
C9_UpdatedCount ==
    [][Called("risk_event") =>
          /\ last'.ret = Cardinality(last'.hit)
          /\ \A k \in ExposedTo \ last'.hit : weight'[k] = weight[k]
          /\ (last'.args[1] \notin RiskFactors \/ last'.hit = {}) =>
                (last'.ret = 0 /\ weight' = weight)]_vars

\* C9 witness: an event on a name no RiskFactor has returned 0
C9_Witness ==
    /\ last.op = "risk_event" /\ ~last.exc
    /\ last.args[1] = "Drought" /\ last.ret = 0 /\ weight = InitWeight

\* C10: no scenario operator changes direct_risk, total_risk or
\* dollarized_risk of any node.
C10_RiskFieldsUntouched ==
    [][(Called("acquisition") \/ Called("divestiture") \/ Called("risk_event")) =>
          (direct_risk' = direct_risk /\ total_risk' = total_risk
            /\ dollarized_risk' = dollarized_risk)]_vars

\* C10 witness: the Flood weight of C_1 is now 0 and a graph change went
\* through, while direct_risk of C_1 is still the sum of the old weights
C10_Witness ==
    /\ nops = 2
    /\ last.op = "acquisition" /\ last.ret
    /\ weight[<<"C_1", "Flood">>] = Zero
    /\ direct_risk["C_1"] = One
    /\ dollarized_risk["C_1"] = R(100, 1)

\* a compute_total_risk run has just ended (alone or in a pass)
Computed == last.op \in {"compute_total_risk", "risk_pass"}

\* C12: compute_total_risk(max_iterations) ends having run at most
\* max_iterations propagation rounds, on every graph, self-loops and cycles of
\* any percent included.
C12_RoundsWithinCap ==
    Computed => (last.ret[1] >= 0 /\ last.ret[1] <= last.args[1])

\* C12 witness: on a two-cycle whose percents multiply to 3/2 the run used
\* all 15 rounds and the last one still updated a node
C12_Witness ==
    /\ last.op = "compute_total_risk" /\ last.args = <<MaxIterations>>
    /\ last.ret[1] = MaxIterations /\ last.ret[2] = TRUE
    /\ \E e \in owns : e.src = "C_2" /\ e.dst = "C_3" /\ e.percent = R(3, 2)

\* |x| <= 0.0001
WithinEps(x) == Abs(x[1]) <= x[2] \div EpsDen

RECURSIVE PercentTimesTotal(_)
\* the sum over the edges es of percent * total_risk of the owned company
PercentTimesTotal(es) ==
    IF es = {} THEN Zero
    ELSE LET e == CHOOSE x \in es : TRUE
         IN  RAdd(RMul(e.percent, total_risk[e.dst]), PercentTimesTotal(es \ {e}))

Outgoing(n) == {e \in owns : e.src = n}

\* C13: when compute_total_risk stops on a round without updates, every node n
\* with outgoing OWNS edges has total_risk within 1e-4 of direct_risk(n) plus
\* the sum of percent * total_risk over its edges (direct_risk of a
\* Blockholder counted as 0).
C13_FixpointWithinEps ==
    (Computed /\ last.ret[2] = FALSE) =>
        \A n \in Owners :
            Outgoing(n) # {} =>
                WithinEps(RSub(total_risk[n],
                               RAdd(IF n \in Blockholders THEN Zero
                                    ELSE direct_risk[n],
                                    PercentTimesTotal(Outgoing(n)))))

\* C13 witness: the run converged after several rounds on the two-cycle of
\* percent 1/2 and the blockholder's total_risk is above its direct_risk
C13_Witness ==
    /\ last.op = "compute_total_risk" /\ last.ret[2] = FALSE /\ last.ret[1] > 3
    /\ \E e \in owns : e.src = "C_3" /\ e.dst = "C_2" /\ e.percent = Half
    /\ RLess(Zero, total_risk["B_1"])

\* C14: after compute_total_risk every Company has direct_risk equal to the
\* sum of the weights of its EXPOSED_TO edges, 0 when it has none, whatever
\* direct_risk held before the run.
C14_DirectRiskIsWeightSum ==
    Computed =>
        \A c \in Companies : direct_risk[c] = WeightSum(Exposures(c), weight)

\* C15: after compute_total_risk every Company or Blockholder without outgoing
\* OWNS edges has total_risk equal to its direct_risk.
C15_LeafTotalIsDirect ==
    Computed =>
        \A n \in Owners : Outgoing(n) = {} => total_risk[n] = direct_risk[n]

RECURSIVE OwnedClosure(_)
\* S and every node owned, directly or through others, by a node of S
OwnedClosure(S) ==
    LET T == S \cup {e.dst : e \in {x \in owns : x.src \in S}}
    IN  IF T = S THEN S ELSE OwnedClosure(T)

\* the nodes n owns, directly or through others
Reach(n) == OwnedClosure({e.dst : e \in Outgoing(n)})

\* n lies on an ownership cycle whose members have no EXPOSED_TO edge and
\* own nothing outside the cycle
InPureCycle(n) ==
    /\ n \in Reach(n)
    /\ \A m \in Reach(n) : Exposures(m) = {} /\ n \in Reach(m)

\* C16: compute_total_risk ends with total_risk = 0 on every member of an
\* ownership cycle whose members have no EXPOSED_TO edges and own nothing
\* outside the cycle.
C16_PureCycleIsZero ==
    Computed => \A n \in Owners : InPureCycle(n) => total_risk[n] = Zero

Acyclic == \A n \in Owners : n \notin Reach(n)

RECURSIVE PathSum(_)
\* the sum, over the ownership paths that start at n, of the direct_risk of
\* the path's end node times the product of the percents along the path
RECURSIVE PathSumOver(_)
PathSumOver(es) ==
    IF es = {} THEN Zero
    ELSE LET e == CHOOSE x \in es : TRUE
         IN  RAdd(RMul(e.percent, PathSum(e.dst)), PathSumOver(es \ {e}))
PathSum(n) == RAdd(direct_risk[n], PathSumOver(Outgoing(n)))

\* C17: on an acyclic ownership graph the total_risk compute_total_risk
\* produces equals the closed-form sum over all ownership paths from the node.
C17_ClosedFormOnAcyclic ==
    (Computed /\ Acyclic) => \A n \in Owners : total_risk[n] = PathSum(n)

\* C18: compute_total_risk then dollarize_risk run twice in a row, with no
\* graph mutation in between, leave direct_risk, total_risk and
\* dollarized_risk of every node after the second run as after the first.
C18_PassIdempotent ==
    [][(last.op = "risk_pass" /\ last'.op = "risk_pass") =>
          (direct_risk' = direct_risk /\ total_risk' = total_risk
            /\ dollarized_risk' = dollarized_risk)]_vars

\* C18 witness: two passes in a row over the graph of Init, on top of the
\* values an earlier run had left
C18_Witness ==
    /\ calls = <<"compute_total_risk", "dollarize_risk",
                 "compute_total_risk", "dollarize_risk">>
    /\ owns = InitOwns /\ exposed = ExposedTo
    /\ dollarized_risk["Quake"] # R(5, 1)
    /\ RLess(One, total_risk["C_2"])

\* a missing value read as 0
OrZero(x) == IF x = Null THEN Zero ELSE x

\* C19: after dollarize_risk every Company c has dollarized_risk equal to
\* total_risk(c) * market_cap(c), a missing total_risk or market_cap read as 0.
C19_CompanyDollars ==
    last.op \in {"dollarize_risk", "risk_pass"} =>
        \A c \in Companies :
            dollarized_risk[c] = RMul(OrZero(total_risk[c]), OrZero(market_cap[c]))

\* C19 witness: dollarize_risk ran on a store without total_risk, and ran
\* after a compute on C_3, which has risk but no market_cap
C19_Witness ==
    \/ /\ calls = <<"dollarize_risk">> /\ total_risk["C_1"] = Null
       /\ dollarized_risk["C_1"] = Zero
    \/ /\ calls = <<"compute_total_risk", "dollarize_risk">>
       /\ RLess(Zero, total_risk["C_3"]) /\ dollarized_risk["C_3"] = Zero
       /\ RLess(Zero, dollarized_risk["C_1"])

\* the position of the first call of the method in calls', 0 if there is none
First(method) ==
    IF \E i \in 1..Len(calls') : calls'[i] = method
    THEN CHOOSE i \in 1..Len(calls') :
            calls'[i] = method /\ \A j \in 1..(i - 1) : calls'[j] # method
    ELSE 0

Operators == {"simulate_acquisition", "simulate_divestiture", "simulate_risk_event"}

\* C11: in the calling layer every scenario operator call that mutates the
\* graph is followed by compute_total_risk and then dollarize_risk, before the
\* after-snapshot and the diff; the before-snapshot precedes the operator.
C11_MutationThenRecompute ==
    [][(nops' = nops + 1
         /\ (owns' # owns \/ role' # role \/ weight' # weight)) =>
          /\ calls'[1] = "export_snapshot_before"
          /\ calls'[2] \in Operators
          /\ 2 < First("compute_total_risk")
          /\ First("compute_total_risk") < First("dollarize_risk")
          /\ First("dollarize_risk") < First("export_snapshot_after")
          /\ First("dollarize_risk") < First("generate_diff")]_vars

RECURSIVE PercentTimesDollars(_)
\* the sum over the edges es of percent * dollarized_risk of the owned company
PercentTimesDollars(es) ==
    IF es = {} THEN Zero
    ELSE LET e == CHOOSE x \in es : TRUE
         IN  RAdd(RMul(e.percent, OrZero(dollarized_risk[e.dst])),
                  PercentTimesDollars(es \ {e}))

\* C20: after scenario operators followed by compute_total_risk and
\* dollarize_risk every Blockholder has dollarized_risk equal to the sum over
\* its current OWNS edges of percent * dollarized_risk of the company, which
\* is 0 for a Blockholder whose edges were all removed.
C20_BlockholderDollars ==
    (Len(calls) = 6 /\ calls[4] = "dollarize_risk") =>
        \A b \in Blockholders :
            dollarized_risk[b] = PercentTimesDollars(Outgoing(b))

\* total_risk after seeding (index 1) and after each executed round
Rounds == last.ret[4]

RECURSIVE PercentTimes(_, _)
\* the sum over the edges es of percent * t of the owned company
PercentTimes(es, t) ==
    IF es = {} THEN Zero
    ELSE LET e == CHOOSE x \in es : TRUE
         IN  RAdd(RMul(e.percent, t[e.dst]), PercentTimes(es \ {e}, t))

\* what a round must leave for node n when every read sees the values t of
\* the start of the round
JacobiValue(t, n) ==
    IF n \in Owners /\ Outgoing(n) # {}
    THEN LET new == RAdd(direct_risk[n], PercentTimes(Outgoing(n), t))
         IN  IF WithinEps(RSub(t[n], new)) THEN t[n] ELSE new
    ELSE t[n]

\* C24: every propagation round is a Jacobi update: what a round leaves in
\* total_risk of each node is computed from the values all nodes held at the
\* start of that round, never from a value written earlier in the round.
C24_JacobiRounds ==
    Computed =>
        \A i \in 1..(Len(Rounds) - 1) :
            \A n \in Nodes : Rounds[i + 1][n] = JacobiValue(Rounds[i], n)

\* C24 witness: a round changed both an owner and the company it owns
C24_Witness ==
    /\ Computed
    /\ \E i \in 1..(Len(Rounds) - 1) : \E e \in owns :
          /\ e.src # e.dst
          /\ Rounds[i + 1][e.src] # Rounds[i][e.src]
          /\ Rounds[i + 1][e.dst] # Rounds[i][e.dst]

\* round i of the run updated at least one node
RoundUpdated(i) == \E n \in Nodes : Rounds[i + 1][n] # Rounds[i][n]

\* C25: compute_total_risk stops at the first round that yields zero updates
\* and runs no further round; the convergence warning is issued exactly when
\* max_iterations rounds were executed and none of them, the last included,
\* was without updates; the values reached are kept as the result.
C25_StopAndWarn ==
    Computed =>
        LET k == last.ret[1]
        IN  /\ Len(Rounds) = k + 1
            /\ \A i \in 1..(k - 1) : RoundUpdated(i)
            /\ k < last.args[1] => (k >= 1 /\ ~RoundUpdated(k))
            /\ last.ret[3] <=>
                   (k = last.args[1] /\ \A i \in 1..k : RoundUpdated(i))
            /\ \A n \in Nodes : total_risk[n] = Rounds[k + 1][n]

\* C25 witness: a run used all 15 rounds, the last still updated a node and
\* the warning was printed
C25_Witness ==
    /\ last.op = "compute_total_risk" /\ last.args = <<MaxIterations>>
    /\ last.ret[1] = MaxIterations /\ last.ret[3]
    /\ RoundUpdated(MaxIterations)

\* the result of a run with the same max_iterations on the same nodes, OWNS
\* edges and EXPOSED_TO weights when the store held no risk fields before
RunWithoutPrior ==
    ComputeTotalRisk(owns, weight, NoRisk, NoRisk, last.args[1])

\* C26: the result of compute_total_risk depends only on the nodes, the OWNS
\* edges with their percents and the EXPOSED_TO edges with their weights: a
\* run ends with the direct_risk and total_risk on every Company and
\* Blockholder that a run on the same graph without prior risk fields ends
\* with, whatever direct_risk and total_risk the store held before.
C26_ResultIndependentOfPrior ==
    Computed =>
        \A n \in Owners :
            /\ direct_risk[n] = RunWithoutPrior.direct[n]
            /\ total_risk[n] = RunWithoutPrior.total[n]

\* x < y, by the sign of x - y
Below(x, y) == RSub(x, y)[1] < 0

\* every node's total_risk in t is at least its direct_risk
AtLeastDirect(t) == \A n \in Owners : ~Below(t[n], direct_risk[n])

\* C29: during compute_total_risk on a graph whose weights, percents and
\* prior direct_risk are non-negative, after seeding and after every round
\* each node's total_risk is at least its direct_risk, and no node's
\* total_risk decreases from one round to the next.
C29_TotalAtLeastDirectAndMonotone ==
    Computed =>
        /\ \A i \in 1..Len(Rounds) : AtLeastDirect(Rounds[i])
        /\ \A i \in 1..(Len(Rounds) - 1) : \A n \in Owners :
               ~Below(Rounds[i + 1][n], Rounds[i][n])

\* the second half of C29 alone: no total_risk decreases between rounds
C29_Monotone ==
    Computed =>
        \A i \in 1..(Len(Rounds) - 1) : \A n \in Owners :
            ~Below(Rounds[i + 1][n], Rounds[i][n])

\* C30: an EXPOSED_TO weight that is 0 stays 0 through every later risk
\* event, whatever its multiplier and filters: a zeroed exposure is not
\* restored by later shocks.
C30_ZeroWeightStaysZero ==
    [][Called("risk_event") =>
          \A k \in ExposedTo : weight[k] = Zero => weight'[k] = Zero]_vars

\* C30 witness: after an earlier event zeroed the Flood weight of C_1, an
\* event with multiplier 2 matched that edge and left it at 0
C30_Witness ==
    /\ nops = 2
    /\ last.op = "risk_event" /\ last.args[2] = R(2, 1) /\ ~last.exc
    /\ <<"C_1", "Flood">> \in last.hit
    /\ weight[<<"C_1", "Flood">>] = Zero

\* C27: after any sequence of acquisitions, divestitures and risk events
\* with arbitrary arguments, from a graph whose percents and weights lie in
\* [0, 1], every OWNS percent and every EXPOSED_TO weight lies in [0, 1].
C27_PercentsAndWeightsInUnitInterval ==
    /\ \A e \in owns : ~RLess(e.percent, Zero) /\ ~RLess(One, e.percent)
    /\ \A k \in exposed : ~RLess(weight[k], Zero) /\ ~RLess(One, weight[k])

\* the half of C27 about weights alone
C27_WeightsInUnitInterval ==
    \A k \in exposed : ~RLess(weight[k], Zero) /\ ~RLess(One, weight[k])

\* C28: from a graph in which no company has role 'acquired', in every
\* state reached by acquisitions and divestitures every company with role
\* 'acquired' has exactly one incoming OWNS edge, whose source is a Company.
C28_AcquiredHasOneCompanyOwner ==
    \A c \in Companies :
        role[c] = "acquired" =>
            /\ Cardinality(Incoming(owns, c)) = 1
            /\ \A e \in Incoming(owns, c) : e.src \in Companies

\* the ids of the rows of the report
ReportIds == {row.id : row \in files.diff.rows}

\* after - before of dollarized_risk for company c, absent or None as 0
Delta(c) == RSub(DollarsIn(files.after, c), DollarsIn(files.before, c))

\* C21: generate_diff emits a row for a company exactly when the company is
\* in the after snapshot and |dollarized_risk(after) - dollarized_risk(before)|
\* is above 0.01, a company absent from the before snapshot counting as 0; a
\* change of exactly 0.01 gives no row and a company only in the before
\* snapshot gives no row.
C21_DiffRows ==
    (last.op = "generate_diff" /\ files.before.exists /\ files.after.exists) =>
        /\ files.diff.exists
        /\ \A c \in Companies :
              /\ c \in ReportIds <=>
                    (c \in DOMAIN files.after.rows
                        /\ RLess(R(1, 100), RAbs(Delta(c))))
              /\ RAbs(Delta(c)) = R(1, 100) => c \notin ReportIds
              /\ c \notin DOMAIN files.after.rows => c \notin ReportIds

\* C21 witness: C_1 went from 0 to 0.01 and has no row, C_2 is new in the
\* after snapshot with 0.021 and has a row
C21_Witness ==
    /\ last.op = "generate_diff"
    /\ files.before.exists /\ DOMAIN files.before.rows = {"C_1"}
    /\ files.before.rows["C_1"] = Zero
    /\ files.after.exists /\ DOMAIN files.after.rows = {"C_1", "C_2"}
    /\ files.after.rows["C_1"] = R(1, 100)
    /\ files.after.rows["C_2"] = R(21, 1000)
    /\ ReportIds = {"C_2"}

\* C23: get_critical_nodes_by_degree(top_n) returns at most top_n entries,
\* each entry standing for one Company or Blockholder node of its own (name
\* and number of incident OWNS and EXPOSED_TO edges of that node), in
\* non-increasing order of that number.
C23_OneEntryPerNodeByDegree ==
    last.op = "critical_nodes" =>
        LET s == last.ret
            nm == last.args[2]
        IN  /\ Len(s) <= last.args[1]
            /\ \E f \in [DOMAIN s -> Owners] :
                  /\ \A i, j \in DOMAIN s : i # j => f[i] # f[j]
                  /\ \A i \in DOMAIN s :
                        s[i] = <<nm[f[i]], Degree(owns, f[i])>>
            /\ \A i, j \in DOMAIN s : i < j => s[i][2] >= s[j][2]

\* the sessions whose handler is between its before-snapshot and its diff
Running == {s \in Sessions : sessions[s].pc \notin {"idle", "error", "done"}}

\* the report the run of session s gives when nothing but its own operator
\* acts on the store it began with
OwnReport(s) ==
    LET g == sessions[s].began
        o == OperatorOf(sessions[s].job, g)
        r == ComputeTotalRisk(o.owns, o.weight, g.direct, g.total,
                              MaxIterations)
        d == DollarizeRisk(o.owns, o.weight, r.total, g.dollars)
    IN  GenerateDiff(ExportSnapshot(g.dollars), ExportSnapshot(d), NoReport)

\* C22: scenario runs are serialized by the caller: at no time are two
\* handlers between their before-snapshot and their diff on the same graph,
\* and the diff a run reads is that of its own mutation alone.
C22_RunsSerialized ==
    /\ Cardinality(Running) <= 1
    /\ \A s \in Sessions :
          sessions[s].pc = "done" => sessions[s].report = OwnReport(s)

\* the second half of C22 alone: the diff of a finished run is that of its
\* own mutation
C22_DiffOfOwnMutation ==
    \A s \in Sessions :
        sessions[s].pc = "done" => sessions[s].report = OwnReport(s)

====
